---- MODULE Spec2Model ----
(***************************************************************************)
(* Model of the todo service: the in-memory repository (memRepo), the      *)
(* application service (TodoService) and the HTTP handlers (Server).       *)
(*                                                                         *)
(* Strings that the code inspects character by character (titles) are      *)
(* sequences of one-character strings; URL paths are the sequence of       *)
(* their "/"-separated segments ("/todos/7-1/toggle" is                     *)
(* <<"todos", "7-1", "toggle">>, "/todos/" is <<"todos", "">>).            *)
(* time.Time values are ticks of one non-decreasing clock; two readings    *)
(* may be equal.  Ids are the strings fmt.Sprintf builds.                  *)
(*                                                                         *)
(* Spec is the server with one client, each request handled from arrival   *)
(* to response (the lock is free whenever a request arrives).  ConcSpec is *)
(* the repository under concurrent callers, each at its Lock/RLock or in   *)
(* its critical section.  PortSpec is Spec over any TodoRepo, whose        *)
(* methods may fail; ClientSpec is the browser's httpClient with the       *)
(* default interceptors.  issued, deleted and scene are history variables. *)
(***************************************************************************)
EXTENDS Integers, Sequences, FiniteSets, TLC

\* ---- bounds --------------------------------------------------------------
\* concurrent callers of the repository
NumWorkers == 2
\* the last reading of the clock
MaxClock == 2
\* clock readings per second of time.Now().Unix()
TicksPerSecond == 2
\* the range of rand.Intn (10000 in the code)
RandN == 2
\* how many tasks are ever created
MaxCreates == 3
\* how many repository calls the concurrent callers make in all
MaxCalls == 4
\* how many requests the page issues through httpClient
MaxRequests == 3

Procs == 1..NumWorkers
Methods == {"GET", "POST", "DELETE", "PUT"}

VARIABLES
  now,        \* the clock time.Now() reads
  data,       \* memRepo.data
  muWriter,   \* memRepo.mu: the worker holding the write lock, or 0
  muReaders,  \* memRepo.mu: the workers holding a read lock
  pc,         \* where each worker is: "idle", "lock" (at Lock/RLock), "cs"
  call,       \* the store call each worker is making
  calls,      \* how many repository calls the workers have begun
  listOut,    \* List's local slice out of each worker, once the range
              \* loop has copied the map into it
  ctx,        \* each call's context: "live", or cancelled "early" (before
              \* the lock was acquired) or "late" (after)
  last,       \* the request just answered and its response, until the
              \* client has read it
  scene,      \* history: how many steps of the end-to-end scenario the
              \* requests so far have made, or Off once they left it
  requestCount, \* interceptors.ts: the module's request counter
  isLoading,    \* interceptors.ts: the isLoading store
  globalError,  \* interceptors.ts: the globalError store (Null or a message)
  req,          \* each httpClient request: where it is, its failure, and
                \* the error interceptors that have run for it
  issued,     \* history: the ids memRepo.Create has returned, in order
  deleted     \* history: the ids memRepo.Delete has removed

vars == <<now, data, muWriter, muReaders, pc, call, calls, listOut, ctx, last, scene,
          requestCount, isLoading, globalError, req, issued, deleted>>

storeVars == <<now, data, issued, deleted>>
clientVars == <<last, scene>>
browserVars == <<requestCount, isLoading, globalError, req>>
workerVars == <<muWriter, muReaders, pc, call, calls, listOut, ctx>>

\* ---- pure helpers --------------------------------------------------------
Min(a, b) == IF a < b THEN a ELSE b

\* time.Time.Unix(): whole seconds of a clock reading
Unix(t) == t \div TicksPerSecond

\* a comparison with its operands swapped
BeforeSwapped(t, u) == u < t

\* t.Before(u)
Before(t, u) == t < u

\* fmt.Sprintf("%d-%d", timestamp, random)
Sprintf(timestamp, random) == ToString(timestamp) \o "-" \o ToString(random)

IsSpace(c) == c \in {" ", "\t", "\n", "\r"}

RECURSIVE TrimLeft(_)
TrimLeft(s) ==
  IF s = <<>> THEN s
  ELSE IF IsSpace(Head(s)) THEN TrimLeft(Tail(s)) ELSE s

RECURSIVE TrimRight(_)
TrimRight(s) ==
  IF s = <<>> THEN s
  ELSE IF IsSpace(s[Len(s)]) THEN TrimRight(SubSeq(s, 1, Len(s) - 1)) ELSE s

\* strings.TrimSpace
TrimSpace(s) == TrimRight(TrimLeft(s))

\* a new task that starts out done
NewTodoDone(id, title, t) ==
  [ID |-> id, Title |-> title, Done |-> TRUE, CreatedAt |-> t, UpdatedAt |-> t]

\* domain.Todo as built by memRepo.Create
NewTodo(id, title, t) ==
  [ID |-> id, Title |-> title, Done |-> FALSE, CreatedAt |-> t, UpdatedAt |-> t]

\* a toggle that refreshes UpdatedAt and forgets to flip Done
ToggleTodoNoFlip(t, at) == [t EXCEPT !.UpdatedAt = at]

\* the record update of memRepo.Toggle
ToggleTodo(t, at) == [t EXCEPT !.Done = ~t.Done, !.UpdatedAt = at]

\* m.data[id] = t
MapPut(m, id, t) == [k \in (DOMAIN m) \cup {id} |-> IF k = id THEN t ELSE m[k]]

\* a delete that leaves the key in the map
MapDeleteNothing(m, id) == [k \in DOMAIN m |-> m[k]]

\* delete(m.data, id)
MapDelete(m, id) == [k \in (DOMAIN m) \ {id} |-> m[k]]

\* the orders in which "for _, t := range m.data" may visit the keys
Orders(S) ==
  {o \in [1..Cardinality(S) -> S] : \A i, j \in DOMAIN o : i # j => o[i] # o[j]}

Swap(s, i, j) == [s EXCEPT ![i] = s[j], ![j] = s[i]]

\* the inner loop of memRepo.List's sort, from index j on
RECURSIVE InnerLoop(_, _, _)
InnerLoop(out, i, j) ==
  IF j > Len(out) THEN out
  ELSE InnerLoop(IF Before(out[j].CreatedAt, out[i].CreatedAt)
                   THEN Swap(out, i, j) ELSE out,
                 i, j + 1)

\* the outer loop of memRepo.List's sort, from index i on
RECURSIVE OuterLoop(_, _)
OuterLoop(out, i) ==
  IF i > Len(out) THEN out
  ELSE OuterLoop(InnerLoop(out, i, i + 1), i + 1)

\* memRepo.List's result when the map is visited in order o
memList(m, o) == OuterLoop([i \in 1..Len(o) |-> m[o[i]]], 1)

\* domain.Todo{}
ZeroTodo == [ID |-> "", Title |-> <<>>, Done |-> FALSE, CreatedAt |-> 0, UpdatedAt |-> 0]

\* a Create that stamps UpdatedAt with its first reading of the clock and
\* CreatedAt with its second
memCreateTwoClocks(m, title, t1, random, t2) ==
  LET id == Sprintf(Unix(t1), random)
      t == [NewTodo(id, title, t2) EXCEPT !.UpdatedAt = t1]
  IN [data |-> MapPut(m, id, t), todo |-> t, err |-> ""]

\* memRepo.Create between Lock and Unlock: t1 and t2 are its two readings of
\* the clock
memCreate(m, title, t1, random, t2) ==
  LET id == Sprintf(Unix(t1), random)
      t == NewTodo(id, title, t2)
  IN [data |-> MapPut(m, id, t), todo |-> t, err |-> ""]

\* memRepo.Toggle between Lock and Unlock
memToggle(m, id, at) ==
  IF id \notin DOMAIN m
    THEN [data |-> m, todo |-> ZeroTodo, err |-> "todo not found"]
    ELSE LET t == ToggleTodo(m[id], at)
         IN [data |-> MapPut(m, id, t), todo |-> t, err |-> ""]

\* a Delete without the existence check (deleting an absent key is a no-op)
memDeleteSilent(m, id) == [data |-> MapDelete(m, id), err |-> ""]

\* memRepo.Delete between Lock and Unlock
memDelete(m, id) ==
  IF id \notin DOMAIN m
    THEN [data |-> m, err |-> "todo not found"]
    ELSE [data |-> MapDelete(m, id), err |-> ""]

\* a validation that tests the title without trimming it
TitleErrNoTrim(title) == IF title = <<>> THEN "title is required" ELSE ""

\* the error of TodoService.Create's validation ("" when there is none)
TitleErr(title) == IF TrimSpace(title) = <<>> THEN "title is required" ELSE ""

\* ---- requests and responses ---------------------------------------------
NoBody == [ok |-> TRUE, Title |-> <<>>]

\* the titles requests carry
Titles == {<<>>, <<" ", "\t">>, <<" ", "a", " ">>, <<"a", " ", "b">>}

\* request bodies: one that does not decode, and {"title": t}
Bodies == {[ok |-> FALSE, Title |-> <<>>]} \cup {[ok |-> TRUE, Title |-> t] : t \in Titles}

\* every id the store can generate within the clock's range
IdSpace == {Sprintf(s, r) : s \in 0..Unix(MaxClock), r \in 0..(RandN - 1)}

NoReq == [method |-> "", path |-> <<>>, body |-> NoBody]

NoOut == [kind |-> "none", error |-> "", todos |-> <<>>]

\* writeErr
WriteErr(code, allow, msg) ==
  [status |-> code, allow |-> allow, out |-> [kind |-> "error", error |-> msg, todos |-> <<>>]]

\* writeJSON of one task / of a list
WriteTodo(code, t) ==
  [status |-> code, allow |-> <<>>, out |-> [kind |-> "todo", error |-> "", todos |-> <<t>>]]

WriteList(code, l) ==
  [status |-> code, allow |-> <<>>, out |-> [kind |-> "list", error |-> "", todos |-> l]]

\* w.WriteHeader(http.StatusNoContent)
WriteNoContent ==
  [status |-> 204, allow |-> <<>>, out |-> [kind |-> "empty", error |-> "", todos |-> <<>>]]

\* the Allow headers the handlers set
AllowTodos == <<"GET", "POST">>
AllowToggle == <<"POST">>
AllowTodoByID == <<"DELETE", "POST">>

Request(method, path, body) == [method |-> method, path |-> path, body |-> body]

\* the record kept in "last": the request and what was written for it
Responded(r, w) ==
  [method |-> r.method, path |-> r.path, body |-> r.body,
   status |-> w.status, allow |-> w.allow, out |-> w.out]

NoResponse == Responded(NoReq, [status |-> 0, allow |-> <<>>, out |-> NoOut])

\* the requests have left the end-to-end scenario
Off == 0 - 1

\* the end-to-end scenario on an empty store: create, list, toggle the new
\* id, delete it, list, delete it again; SceneNext is the position after
\* request rq arrives at position k, ids being the ids created before it
SceneNext(k, ids, rq) ==
  LET id == IF ids = <<>> THEN "" ELSE ids[1] IN
  IF k = 0 /\ rq.method = "POST" /\ rq.path = <<"todos">> /\ rq.body.ok
           /\ (\E i \in DOMAIN rq.body.Title : ~IsSpace(rq.body.Title[i])) THEN 1
  ELSE IF k \in {1, 4} /\ rq.method = "GET" /\ rq.path = <<"todos">> THEN k + 1
  ELSE IF k = 2 /\ rq.method = "POST" /\ rq.path = <<"todos", id, "toggle">> THEN 3
  ELSE IF k \in {3, 5} /\ rq.method = "DELETE" /\ rq.path = <<"todos", id>> THEN k + 1
  ELSE Off

NoCall == [op |-> "none", title |-> <<>>, id |-> ""]

\* List has not yet run its range loop
NotCopied == [copied |-> FALSE, items |-> <<>>]

\* the titles that pass TodoService.Create, as memRepo.Create receives them
RepoTitles == {TrimSpace(t) : t \in {u \in Titles : TitleErr(u) = ""}}

\* the calls workers make on the repository
Calls ==
  {[op |-> "Create", title |-> t, id |-> ""] : t \in RepoTitles}
    \cup {[op |-> "List", title |-> <<>>, id |-> ""]}
    \cup {[op |-> o, title |-> <<>>, id |-> i] : o \in {"Toggle", "Delete"}, i \in IdSpace}

\* the requests below /todos/ that clients send: every method on "/todos/",
\* on one task's path, on its toggle path and on a longer path, and the
\* supported method on every task's path and toggle path
ByIDRequests ==
  LET id0 == Sprintf(0, 0) IN
  {[method |-> m, path |-> p] :
     m \in Methods,
     p \in {<<"todos", "">>, <<"todos", id0>>, <<"todos", id0, "toggle">>,
            <<"todos", id0, "x">>}}
    \cup {[method |-> "DELETE", path |-> <<"todos", id>>] : id \in IdSpace}
    \cup {[method |-> "POST", path |-> <<"todos", id, "toggle">>] : id \in IdSpace}

\* strings.Split(strings.TrimPrefix(r.URL.Path, "/todos/"), "/")
Parts(path) == Tail(path)

IsTogglePath(parts) == Len(parts) = 2 /\ parts[2] = "toggle"

\* what a handler's dispatch yields when it goes on to call the service
Accepted == [status |-> 0, allow |-> <<>>, out |-> NoOut]

\* handleTodos' switch on the method: the default case, or Accepted
TodosRefusal(method) ==
  IF method = "GET" \/ method = "POST" THEN Accepted
  ELSE WriteErr(405, AllowTodos, "method not allowed")

\* handleTodoByID's checks of the path and the method: the response it writes
\* without calling the service, or Accepted
ByIDRefusal(method, path) ==
  LET parts == Parts(path) IN
  IF Len(parts) = 0 \/ parts[1] = "" THEN WriteErr(400, <<>>, "missing id")
  ELSE IF IsTogglePath(parts) THEN
    (IF method # "POST" THEN WriteErr(405, AllowToggle, "method not allowed")
     ELSE Accepted)
  ELSE IF method = "DELETE" THEN Accepted
  ELSE WriteErr(405, AllowTodoByID, "method not allowed")

\* the routes of Server.routes: "/todos" and "/todos/..."
Refusal(method, path) ==
  IF Len(path) = 1 THEN TodosRefusal(method) ELSE ByIDRefusal(method, path)

\* ---- the browser: httpClient with the default interceptors ---------------
\* Messages are the sequences of their words; the Turkish messages of
\* errorInterceptor are written without diacritics.  An HttpError is its
\* status (0 when it has none) and its message.
Requests == 1..MaxRequests

\* globalError's null
Null == <<>>

\* setupDefaultInterceptors: the three chains in registration order
RequestInterceptors ==
  <<"contentTypeInterceptor", "authInterceptor", "loggingInterceptor",
    "timingInterceptor", "loadingInterceptor">>
ResponseInterceptors ==
  <<"timingResponseInterceptor", "loggingResponseInterceptor", "loadingResponseInterceptor">>
ErrorInterceptors ==
  <<"loadingErrorInterceptor", "retryInterceptor", "errorInterceptor">>

\* the module state of interceptors.ts
Stores(count, loading, error) ==
  [requestCount |-> count, isLoading |-> loading, globalError |-> error]

\* loadingInterceptor
loadingInterceptor(st) ==
  LET count == st.requestCount + 1 IN
  IF count = 1 THEN Stores(count, TRUE, Null)
  ELSE Stores(count, st.isLoading, st.globalError)

\* loadingResponseInterceptor
loadingResponseInterceptor(st) ==
  LET count == st.requestCount - 1 IN
  Stores(count, IF count = 0 THEN FALSE ELSE st.isLoading, st.globalError)

\* loadingErrorInterceptor, which returns Promise.reject(error)
loadingErrorInterceptor(st) ==
  LET count == st.requestCount - 1 IN
  [st |-> Stores(count, IF count = 0 THEN FALSE ELSE st.isLoading, st.globalError),
   rejects |-> TRUE]

\* error.message.includes('fetch')
IncludesFetch(message) == \E i \in DOMAIN message : message[i] = "fetch"

\* errorInterceptor's errorMessage
ErrorMessage(error) ==
  IF error.status # 0 THEN
    CASE error.status = 400 -> <<"Gecersiz", "istek">>
      [] error.status = 401 -> <<"Yetkisiz", "erisim">>
      [] error.status = 403 -> <<"Erisim", "reddedildi">>
      [] error.status = 404 -> <<"Kaynak", "bulunamadi">>
      [] error.status = 500 -> <<"Sunucu", "hatasi">>
      [] OTHER -> <<"HTTP", ToString(error.status) \o ":">> \o error.message
  ELSE IF IncludesFetch(error.message) THEN
    <<"Baglanti", "hatasi.", "Lutfen", "internet", "baglantinizi", "kontrol", "edin.">>
  ELSE <<"Bir", "hata", "olustu">>

\* errorInterceptor, which returns Promise.reject(error)
errorInterceptor(st, error) ==
  [st |-> Stores(st.requestCount, st.isLoading, ErrorMessage(error)), rejects |-> TRUE]

\* retryInterceptor, which waits and returns Promise.reject(error)
retryInterceptor(st) == [st |-> st, rejects |-> TRUE]

\* one request interceptor applied: it throws only where it reads
\* localStorage and that read throws
RunRequestInterceptor(name, st, storageThrows) ==
  IF name = "authInterceptor" /\ storageThrows THEN [st |-> st, thrown |-> TRUE]
  ELSE IF name = "loadingInterceptor" THEN [st |-> loadingInterceptor(st), thrown |-> FALSE]
  ELSE [st |-> st, thrown |-> FALSE]

RECURSIVE ApplyRequestInterceptors(_, _, _)
\* HttpClient.applyRequestInterceptors from interceptor i on
ApplyRequestInterceptors(st, i, storageThrows) ==
  IF i > Len(RequestInterceptors) THEN [st |-> st, thrown |-> FALSE]
  ELSE LET r == RunRequestInterceptor(RequestInterceptors[i], st, storageThrows) IN
       IF r.thrown THEN r ELSE ApplyRequestInterceptors(r.st, i + 1, storageThrows)

RECURSIVE ApplyResponseInterceptors(_, _)
\* HttpClient.applyResponseInterceptors from interceptor i on
ApplyResponseInterceptors(st, i) ==
  IF i > Len(ResponseInterceptors) THEN st
  ELSE ApplyResponseInterceptors(
         IF ResponseInterceptors[i] = "loadingResponseInterceptor"
         THEN loadingResponseInterceptor(st) ELSE st, i + 1)

\* one error interceptor applied
RunErrorInterceptor(name, st, error) ==
  IF name = "loadingErrorInterceptor" THEN loadingErrorInterceptor(st)
  ELSE IF name = "retryInterceptor" THEN retryInterceptor(st)
  ELSE errorInterceptor(st, error)

RECURSIVE ApplyErrorInterceptors(_, _, _, _)
\* HttpClient.applyErrorInterceptors from interceptor i on: awaiting a
\* rejected promise throws, the catch rethrows, and the loop is over; ran
\* lists the interceptors that have run
ApplyErrorInterceptors(st, error, i, ran) ==
  IF i > Len(ErrorInterceptors) THEN [st |-> st, ran |-> ran]
  ELSE LET r == RunErrorInterceptor(ErrorInterceptors[i], st, error) IN
       IF r.rejects THEN [st |-> r.st, ran |-> Append(ran, ErrorInterceptors[i])]
       ELSE ApplyErrorInterceptors(r.st, error, i + 1, Append(ran, ErrorInterceptors[i]))

\* the statuses the server answers with, and response.statusText
Statuses == {200, 404, 500, 503}
StatusText(status) ==
  CASE status = 200 -> <<"OK">>
    [] status = 404 -> <<"Not", "Found">>
    [] status = 500 -> <<"Internal", "Server", "Error">>
    [] OTHER -> <<"Service", "Unavailable">>

\* response.ok
ResponseOk(status) == status >= 200 /\ status <= 299

\* the Error messages of the runtime: fetch's network failure, the abort of
\* the timeout, response.json() on a malformed body, the localStorage read
NetworkMessage == <<"Failed", "to", "fetch">>
AbortMessage == <<"The", "operation", "was", "aborted.">>
ParseMessage == <<"Unexpected", "token">>
StorageMessage == <<"localStorage", "is", "not", "defined">>

HttpError(status, message) == [status |-> status, message |-> message]
NoError == HttpError(0, <<>>)

\* what fetch and parseResponse can come to
FetchOutcomes ==
  {[kind |-> "response", status |-> s, parses |-> b] : s \in Statuses, b \in BOOLEAN}
    \cup {[kind |-> k, status |-> 0, parses |-> FALSE] : k \in {"network", "timeout"}}

\* a request: not yet issued ("new"), awaiting fetch ("fetch"), in the catch
\* block of request ("caught") or at its !response.ok branch ("failed") with
\* applyErrorInterceptors still to run, or settled ("resolved", "rejected")
ReqState(pc0, cause, error, ran) == [pc |-> pc0, cause |-> cause, error |-> error, ran |-> ran]
NewRequest == ReqState("new", "none", NoError, <<>>)

CurrentStores == Stores(requestCount, isLoading, globalError)

SetStores(st) ==
  /\ requestCount' = st.requestCount
  /\ isLoading' = st.isLoading
  /\ globalError' = st.globalError

serverVars == <<storeVars, clientVars, workerVars>>

\* ---- initial state -------------------------------------------------------
Init ==
  /\ now = 0
  /\ data = <<>>
  /\ muWriter = 0
  /\ muReaders = {}
  /\ pc = [p \in Procs |-> "idle"]
  /\ call = [p \in Procs |-> NoCall]
  /\ calls = 0
  /\ listOut = [p \in Procs |-> NotCopied]
  /\ ctx = [p \in Procs |-> "live"]
  /\ last = NoResponse
  /\ scene = 0
  /\ requestCount = 0
  /\ isLoading = FALSE
  /\ globalError = Null
  /\ req = [r \in Requests |-> NewRequest]
  /\ issued = <<>>
  /\ deleted = {}

\* ---- the clock -----------------------------------------------------------
Tick ==
  /\ now < MaxClock
  /\ now' = now + 1
  /\ UNCHANGED <<data, issued, deleted, clientVars, workerVars, browserVars>>

\* ---- one client: each request handled from arrival to response -----------
\* the client sends its next request once it has read the last response
Ready == last = NoResponse

\* the client reads the response
Deliver ==
  /\ last # NoResponse
  /\ last' = NoResponse
  /\ UNCHANGED <<storeVars, workerVars, scene, browserVars>>

\* handleTodos, case GET: TodoService.List, memRepo.List
GetTodos(o) ==
  /\ last' = Responded(Request("GET", <<"todos">>, NoBody), WriteList(200, memList(data, o)))
  /\ UNCHANGED <<storeVars, workerVars, browserVars>>

\* handleTodos, case POST, refused: the body does not decode, or
\* TodoService.Create rejects the title
PostRefused(body) ==
  /\ ~body.ok \/ TitleErr(body.Title) # ""
  /\ last' = Responded(Request("POST", <<"todos">>, body),
                       WriteErr(400, <<>>, IF ~body.ok THEN "invalid JSON body"
                                           ELSE TitleErr(body.Title)))
  /\ UNCHANGED <<storeVars, workerVars, browserVars>>

\* handleTodos, case POST, accepted: TodoService.Create, memRepo.Create
PostCreate(body, random, t2) ==
  LET res == memCreate(data, TrimSpace(body.Title), now, random, t2) IN
  /\ body.ok /\ TitleErr(body.Title) = ""
  /\ Len(issued) < MaxCreates
  /\ data' = res.data
  /\ now' = t2
  /\ issued' = Append(issued, res.todo.ID)
  /\ last' = Responded(Request("POST", <<"todos">>, body), WriteTodo(201, res.todo))
  /\ UNCHANGED <<deleted, workerVars, browserVars>>

\* handleTodos, default
TodosNotAllowed(method) ==
  /\ last' = Responded(Request(method, <<"todos">>, NoBody), TodosRefusal(method))
  /\ UNCHANGED <<storeVars, workerVars, browserVars>>

\* Server.handleTodos
HandleTodos ==
  /\ Ready
  /\ \E method \in Methods :
    IF method = "GET" THEN \E o \in Orders(DOMAIN data) : GetTodos(o)
    ELSE IF method = "POST" THEN
      \E body \in Bodies :
        IF ~body.ok \/ TitleErr(body.Title) # "" THEN PostRefused(body)
        ELSE \E random \in 0..(RandN - 1), t2 \in now..Min(now + 1, MaxClock) :
               PostCreate(body, random, t2)
    ELSE (TodosRefusal(method) # Accepted /\ TodosNotAllowed(method))
  /\ scene' = SceneNext(scene, issued, last')

\* handleTodoByID, the toggle branch: TodoService.Toggle, memRepo.Toggle
PostToggle(path) ==
  LET r == Request("POST", path, NoBody)
      res == memToggle(data, Parts(path)[1], now)
  IN
  /\ data' = res.data
  /\ last' = Responded(r, IF res.err # "" THEN WriteErr(404, <<>>, res.err)
                          ELSE WriteTodo(200, res.todo))
  /\ UNCHANGED <<now, issued, deleted, workerVars, browserVars>>

\* handleTodoByID, case DELETE: TodoService.Delete, memRepo.Delete
DeleteTodo(path) ==
  LET r == Request("DELETE", path, NoBody)
      id == Parts(path)[1]
      res == memDelete(data, id)
  IN
  /\ data' = res.data
  /\ deleted' = IF res.err # "" THEN deleted ELSE deleted \cup {id}
  /\ last' = Responded(r, IF res.err # "" THEN WriteErr(404, <<>>, res.err)
                          ELSE WriteNoContent)
  /\ UNCHANGED <<now, issued, workerVars, browserVars>>

\* handleTodoByID's answers that call no store method
ByIDRefused(method, path) ==
  /\ last' = Responded(Request(method, path, NoBody), ByIDRefusal(method, path))
  /\ UNCHANGED <<storeVars, workerVars, browserVars>>

\* Server.handleTodoByID
HandleTodoByID ==
  /\ Ready
  /\ \E rq \in ByIDRequests :
       IF ByIDRefusal(rq.method, rq.path) # Accepted THEN ByIDRefused(rq.method, rq.path)
       ELSE IF IsTogglePath(Parts(rq.path)) THEN PostToggle(rq.path)
       ELSE DeleteTodo(rq.path)
  /\ scene' = SceneNext(scene, issued, last')

Next ==
  \/ Tick
  \/ HandleTodos
  \/ HandleTodoByID
  \/ Deliver

Spec == Init /\ [][Next]_vars

\* ---- the handlers over any TodoRepo --------------------------------------
\* the message of an error a TodoRepo method returns for a failure of the
\* store itself (the port lets every method return any error)
ErrStore == "store failure"

\* handleTodos, case GET, TodoRepo.List returns an error
GetTodosFailed ==
  /\ last' = Responded(Request("GET", <<"todos">>, NoBody), WriteErr(500, <<>>, ErrStore))
  /\ UNCHANGED <<storeVars, workerVars, browserVars>>

\* handleTodos, case POST, the title passes and TodoRepo.Create returns an error
PostCreateFailed(body) ==
  /\ body.ok /\ TitleErr(body.Title) = ""
  /\ last' = Responded(Request("POST", <<"todos">>, body), WriteErr(400, <<>>, ErrStore))
  /\ UNCHANGED <<storeVars, workerVars, browserVars>>

\* handleTodoByID, the toggle branch, TodoRepo.Toggle returns an error
PostToggleFailed(path) ==
  /\ ByIDRefusal("POST", path) = Accepted
  /\ IsTogglePath(Parts(path))
  /\ last' = Responded(Request("POST", path, NoBody), WriteErr(404, <<>>, ErrStore))
  /\ UNCHANGED <<storeVars, workerVars, browserVars>>

\* handleTodoByID, case DELETE, TodoRepo.Delete returns an error
DeleteTodoFailed(path) ==
  /\ ByIDRefusal("DELETE", path) = Accepted
  /\ ~IsTogglePath(Parts(path))
  /\ last' = Responded(Request("DELETE", path, NoBody), WriteErr(404, <<>>, ErrStore))
  /\ UNCHANGED <<storeVars, workerVars, browserVars>>

\* a request during which the store fails
HandleStoreFailure ==
  /\ Ready
  /\ \/ GetTodosFailed
     \/ \E body \in Bodies : PostCreateFailed(body)
     \/ \E rq \in ByIDRequests : rq.method = "POST" /\ PostToggleFailed(rq.path)
     \/ \E rq \in ByIDRequests : rq.method = "DELETE" /\ DeleteTodoFailed(rq.path)
  /\ scene' = Off

PortNext ==
  \/ Tick
  \/ HandleTodos
  \/ HandleTodoByID
  \/ HandleStoreFailure
  \/ Deliver

PortSpec == Init /\ [][PortNext]_vars

\* ---- concurrent workers on the repository --------------------------------
\* a handler calls a repository method: the worker arrives at its Lock/RLock
Begin(p) ==
  /\ pc[p] = "idle"
  /\ calls < MaxCalls
  /\ \E c \in Calls : call' = [call EXCEPT ![p] = c]
  /\ calls' = calls + 1
  /\ pc' = [pc EXCEPT ![p] = "lock"]
  /\ UNCHANGED <<storeVars, clientVars, muWriter, muReaders, listOut, ctx, browserVars>>

\* the call's context is cancelled (client gone, deadline passed)
Cancel(p) ==
  /\ pc[p] \in {"lock", "cs"}
  /\ ctx[p] = "live"
  /\ ctx' = [ctx EXCEPT ![p] = IF pc[p] = "lock" THEN "early" ELSE "late"]
  /\ UNCHANGED <<storeVars, clientVars, muWriter, muReaders, pc, call, calls, listOut, browserVars>>

\* m.mu.Lock() of Create, Toggle, Delete
Lock(p) ==
  /\ pc[p] = "lock"
  /\ call[p].op # "List"
  /\ muWriter = 0
  /\ muReaders = {}
  /\ muWriter' = p
  /\ pc' = [pc EXCEPT ![p] = "cs"]
  /\ UNCHANGED <<storeVars, clientVars, muReaders, call, calls, listOut, ctx, browserVars>>

\* an RLock that does not wait for the writer
RLockNoWait(p) ==
  /\ pc[p] = "lock"
  /\ call[p].op = "List"
  /\ muReaders' = muReaders \cup {p}
  /\ pc' = [pc EXCEPT ![p] = "cs"]
  /\ UNCHANGED <<storeVars, clientVars, muWriter, call, calls, listOut, ctx, browserVars>>

\* m.mu.RLock() of List
RLock(p) ==
  /\ pc[p] = "lock"
  /\ call[p].op = "List"
  /\ muWriter = 0
  /\ muReaders' = muReaders \cup {p}
  /\ pc' = [pc EXCEPT ![p] = "cs"]
  /\ UNCHANGED <<storeVars, clientVars, muWriter, call, calls, listOut, ctx, browserVars>>

\* the method returns: deferred Unlock/RUnlock, the worker is free again
Return(p) ==
  /\ pc' = [pc EXCEPT ![p] = "idle"]
  /\ call' = [call EXCEPT ![p] = NoCall]
  /\ ctx' = [ctx EXCEPT ![p] = "live"]
  /\ listOut' = [listOut EXCEPT ![p] = NotCopied]
  /\ muWriter' = IF muWriter = p THEN 0 ELSE muWriter
  /\ muReaders' = muReaders \ {p}
  /\ UNCHANGED calls

\* memRepo.Create from Lock to Unlock
CreateCS(p) ==
  /\ pc[p] = "cs"
  /\ call[p].op = "Create"
  /\ Len(issued) < MaxCreates
  /\ \E random \in 0..(RandN - 1), t2 \in now..Min(now + 1, MaxClock) :
       LET res == memCreate(data, call[p].title, now, random, t2) IN
       /\ data' = res.data
       /\ now' = t2
       /\ issued' = Append(issued, res.todo.ID)
  /\ Return(p)
  /\ UNCHANGED <<deleted, clientVars, browserVars>>

\* memRepo.List: the range loop copies the map into out
ListCopy(p) ==
  /\ pc[p] = "cs"
  /\ call[p].op = "List"
  /\ ~listOut[p].copied
  /\ listOut' = [listOut EXCEPT ![p] = [copied |-> TRUE, items |-> data]]
  /\ UNCHANGED <<storeVars, clientVars, muWriter, muReaders, pc, call, calls, ctx, browserVars>>

\* what List returns from the slice it copied, the range loop having
\* visited the map in order o
ListResult(p, o) == memList(listOut[p].items, o)

\* memRepo.List from the sort to RUnlock
ListCS(p) ==
  /\ pc[p] = "cs"
  /\ call[p].op = "List"
  /\ listOut[p].copied
  /\ Return(p)
  /\ UNCHANGED <<storeVars, clientVars, browserVars>>

\* memRepo.Toggle from Lock to Unlock
ToggleCS(p) ==
  /\ pc[p] = "cs"
  /\ call[p].op = "Toggle"
  /\ data' = memToggle(data, call[p].id, now).data
  /\ Return(p)
  /\ UNCHANGED <<now, issued, deleted, clientVars, browserVars>>

\* memRepo.Delete from Lock to Unlock
DeleteCS(p) ==
  /\ pc[p] = "cs"
  /\ call[p].op = "Delete"
  /\ LET res == memDelete(data, call[p].id) IN
       /\ data' = res.data
       /\ deleted' = IF res.err # "" THEN deleted ELSE deleted \cup {call[p].id}
  /\ Return(p)
  /\ UNCHANGED <<now, issued, clientVars, browserVars>>

ConcNext ==
  \/ Tick
  \/ \E p \in Procs : Begin(p)
  \/ \E p \in Procs : Cancel(p)
  \/ \E p \in Procs : Lock(p)
  \/ \E p \in Procs : RLock(p)
  \/ \E p \in Procs : CreateCS(p)
  \/ \E p \in Procs : ListCopy(p)
  \/ \E p \in Procs : ListCS(p)
  \/ \E p \in Procs : ToggleCS(p)
  \/ \E p \in Procs : DeleteCS(p)

ConcSpec == Init /\ [][ConcNext]_vars

\* ---- the browser: the steps of a request ---------------------------------
\* HttpClient.request up to its await of fetch: the request interceptors run
Issue(r) ==
  /\ req[r].pc = "new"
  /\ \E storageThrows \in BOOLEAN :
       LET res == ApplyRequestInterceptors(CurrentStores, 1, storageThrows) IN
       /\ SetStores(res.st)
       /\ req' = [req EXCEPT ![r] =
                    IF res.thrown
                    THEN ReqState("caught", "interceptor", HttpError(0, StorageMessage), <<>>)
                    ELSE ReqState("fetch", "none", NoError, <<>>)]
  /\ UNCHANGED serverVars

\* HttpClient.request from the end of fetch: parseResponse, then the
\* response interceptors, or the error of the catch block or of !response.ok
Fetched(r, outcome) ==
  /\ req[r].pc = "fetch"
  /\ IF outcome.kind = "network" THEN
       /\ req' = [req EXCEPT ![r] = ReqState("caught", "network", HttpError(0, NetworkMessage), <<>>)]
       /\ UNCHANGED <<requestCount, isLoading, globalError>>
     ELSE IF outcome.kind = "timeout" THEN
       /\ req' = [req EXCEPT ![r] = ReqState("caught", "timeout", HttpError(0, AbortMessage), <<>>)]
       /\ UNCHANGED <<requestCount, isLoading, globalError>>
     ELSE IF ~outcome.parses THEN
       /\ req' = [req EXCEPT ![r] = ReqState("caught", "parse", HttpError(0, ParseMessage), <<>>)]
       /\ UNCHANGED <<requestCount, isLoading, globalError>>
     ELSE IF ~ResponseOk(outcome.status) THEN
       /\ req' = [req EXCEPT ![r] =
                    ReqState("failed", "status",
                             HttpError(outcome.status, StatusText(outcome.status)), <<>>)]
       /\ UNCHANGED <<requestCount, isLoading, globalError>>
     ELSE
       /\ SetStores(ApplyResponseInterceptors(CurrentStores, 1))
       /\ req' = [req EXCEPT ![r] = ReqState("resolved", "none", NoError, <<>>)]
  /\ UNCHANGED serverVars

\* HttpClient.applyErrorInterceptors, called from the catch block or from
\* the !response.ok branch: the request is rejected
Rejected(r) ==
  /\ req[r].pc \in {"caught", "failed"}
  /\ LET res == ApplyErrorInterceptors(CurrentStores, req[r].error, 1, <<>>) IN
       /\ SetStores(res.st)
       /\ req' = [req EXCEPT ![r] = ReqState("rejected", req[r].cause, req[r].error, res.ran)]
  /\ UNCHANGED serverVars

ClientNext ==
  \/ \E r \in Requests : Issue(r)
  \/ \E r \in Requests, outcome \in FetchOutcomes : Fetched(r, outcome)
  \/ \E r \in Requests : Rejected(r)

ClientSpec == Init /\ [][ClientNext]_vars

\* ---- properties ----------------------------------------------------------
NoDup(s) == \A i, j \in DOMAIN s : i # j => s[i] # s[j]

\* the title has a character that is not whitespace
NonBlank(raw) == \E k \in DOMAIN raw : ~IsSpace(raw[k])

\* t is raw without its leading and trailing whitespace
IsTrimOf(t, raw) ==
  /\ t # <<>>
  /\ ~IsSpace(t[1])
  /\ ~IsSpace(t[Len(t)])
  /\ \E i \in 0..(Len(raw) - Len(t)) :
       /\ SubSeq(raw, i + 1, i + Len(t)) = t
       /\ \A k \in 1..Len(raw) : (k <= i \/ k > i + Len(t)) => IsSpace(raw[k])

\* this step handles a request (the client was ready and now has a response)
Handled == last = NoResponse /\ last' # NoResponse

\* C11: a create, toggle or delete in its critical section is alone there,
\* while lists may share it, and what a list has copied is the store as it
\* is until that list returns, so every call acts on one state of the store
StoreCallsSerialised ==
  /\ \A p \in Procs :
       (pc[p] = "cs" /\ call[p].op # "List") => \A q \in Procs \ {p} : pc[q] # "cs"
  /\ \A p \in Procs : pc[p] = "cs" =>
       IF call[p].op = "List" THEN p \in muReaders /\ muWriter = 0
       ELSE muWriter = p /\ muReaders = {}
  /\ \A p \in Procs : listOut[p].copied =>
       /\ listOut[p].items = data
       /\ \A o \in Orders(DOMAIN data) : ListResult(p, o) = memList(data, o)

StoreCallsSerialisedWitness ==
  /\ data # <<>>
  /\ \A p \in Procs : pc[p] = "cs" /\ call[p].op = "List" /\ listOut[p].copied
  /\ calls > NumWorkers

\* C12: on an empty store, create with a valid title, list, toggle the new
\* id, delete it, list, delete it again answer 201 with done=false, 200 with
\* one entry, 200 with done=true, 204 with no body, 200 with no entry, and
\* 404 with an error body
ScenarioStatuses ==
  last # NoResponse =>
    /\ scene = 1 => /\ last.status = 201 /\ last.out.kind = "todo"
                    /\ last.out.todos[1].Done = FALSE
                    /\ last.out.todos[1].ID = issued[1]
    /\ scene = 2 => /\ last.status = 200 /\ last.out.kind = "list"
                    /\ Len(last.out.todos) = 1
                    /\ last.out.todos[1].ID = issued[1]
    /\ scene = 3 => /\ last.status = 200 /\ last.out.kind = "todo"
                    /\ last.out.todos[1].Done = TRUE
                    /\ last.out.todos[1].ID = issued[1]
    /\ scene = 4 => last.status = 204 /\ last.out.kind = "empty"
    /\ scene = 5 => /\ last.status = 200 /\ last.out.kind = "list"
                    /\ last.out.todos = <<>>
    /\ scene = 6 => /\ last.status = 404 /\ last.out.kind = "error"
                    /\ last.out.error # ""

ScenarioStatusesWitness ==
  /\ scene = 6
  /\ last.method = "DELETE"
  /\ last.path = <<"todos", issued[1]>>
  /\ now > 0

\* C13: a body that does not decode or a blank title answers 400, an id that
\* is not in the store answers 404, a failure of the store itself answers 500
\* on every operation, and every failure response has an error message
FailureKindsMapped ==
  [][Handled =>
       /\ (/\ last'.method = "POST" /\ last'.path = <<"todos">>
           /\ (~last'.body.ok \/ ~NonBlank(last'.body.Title)))
          => last'.status = 400
       /\ (/\ last'.out.error # ErrStore
           /\ ByIDRefusal(last'.method, last'.path) = Accepted
           /\ last'.path[1] = "todos" /\ Len(last'.path) > 1
           /\ last'.path[2] \notin DOMAIN data)
          => last'.status = 404
       /\ last'.out.error = ErrStore => last'.status = 500
       /\ last'.status >= 400 => last'.out.kind = "error" /\ last'.out.error # ""]_vars

\* a successful toggle or delete of id changes nothing but task id: toggle
\* its Done and UpdatedAt, delete its presence; extra path segments after
\* the id of a DELETE make no difference
ToggleDeleteFrame ==
  \A id \in IdSpace :
    /\ (/\ last'.method = "POST" /\ last'.path = <<"todos", id, "toggle">>
        /\ last'.status = 200)
       => /\ DOMAIN data' = DOMAIN data
          /\ \A k \in DOMAIN data \ {id} : data'[k] = data[k]
          /\ data'[id].ID = data[id].ID
          /\ data'[id].Title = data[id].Title
          /\ data'[id].CreatedAt = data[id].CreatedAt
    /\ (/\ last'.method = "DELETE" /\ Len(last'.path) >= 2
        /\ last'.path[1] = "todos" /\ last'.path[2] = id
        /\ last'.status = 204)
       => /\ DOMAIN data' = DOMAIN data \ {id}
          /\ \A k \in DOMAIN data' : data'[k] = data[k]

\* C14: toggle and delete change only the targeted task (toggle its done and
\* updatedAt), and a task keeps its id, title and createdAt in every step
\* from its creation to its deletion
TaskFramePreserved ==
  [][/\ Handled => ToggleDeleteFrame
     /\ \A id \in DOMAIN data \cap DOMAIN data' :
          /\ data'[id].ID = data[id].ID
          /\ data'[id].Title = data[id].Title
          /\ data'[id].CreatedAt = data[id].CreatedAt]_vars

\* the part of C14 about toggle and delete alone
ToggleDeleteFrameHolds == [][Handled => ToggleDeleteFrame]_vars

ToggleDeleteFrameWitness ==
  /\ last.method = "DELETE"
  /\ Len(last.path) = 3
  /\ last.status = 204
  /\ data # <<>>

\* the requests that have passed loadingInterceptor and are not yet settled
InFlight ==
  {r \in Requests :
     \/ req[r].pc = "fetch"
     \/ req[r].pc \in {"caught", "failed"} /\ req[r].cause # "interceptor"}

\* C15: requestCount is never negative and is the number of requests in
\* flight, isLoading is true exactly while requestCount > 0, and isLoading
\* is false once every issued request has settled
LoadingCountExact ==
  /\ requestCount >= 0
  /\ requestCount = Cardinality(InFlight)
  /\ isLoading <=> requestCount > 0
  /\ (\A r \in Requests : req[r].pc \in {"new", "resolved", "rejected"}) => ~isLoading

\* C16: when a request fails with a non-2xx response or a network error,
\* the three error interceptors have run once each in registration order and
\* globalError is the message for that failure when the request is rejected
ErrorInterceptorsAllRun ==
  [][\A r \in Requests :
       (/\ req[r].pc # "rejected" /\ req'[r].pc = "rejected"
        /\ req'[r].cause \in {"status", "network"})
       => (/\ req'[r].ran = ErrorInterceptors
           /\ globalError' = ErrorMessage(req'[r].error))]_vars

\* C1: every create returns an id no other create has returned, and the
\* store holds one task per create that has not been deleted
CreateIdsUnique ==
  /\ NoDup(issued)
  /\ Cardinality(DOMAIN data) = Len(issued) - Cardinality(deleted)

BlankTitleRefused ==
  /\ [](\A id \in DOMAIN data : data[id].Title # <<>>)
  /\ [][(/\ Handled
         /\ last'.method = "POST" /\ last'.path = <<"todos">>
         /\ last'.body.ok /\ ~NonBlank(last'.body.Title))
        => (/\ last'.status = 400
            /\ last'.out.kind = "error"
            /\ last'.out.error = "title is required"
            /\ data' = data /\ issued' = issued)]_vars

BlankTitleRefusedWitness ==
  /\ last.status = 400
  /\ last.body.ok
  /\ last.body.Title # <<>>
  /\ data # <<>>

\* this step handles POST /todos/{id}/toggle for a task in the store
ToggleStep(id) ==
  /\ Handled
  /\ last'.method = "POST"
  /\ last'.path = <<"todos", id, "toggle">>
  /\ id \in DOMAIN data

\* C4, as claimed: toggle returns the task with done negated and updatedAt
\* strictly greater than before
ToggleStrictlyAdvances ==
  [][\A id \in IdSpace :
       ToggleStep(id)
       => (/\ last'.status = 200
           /\ last'.out.todos = <<data'[id]>>
           /\ data'[id].Done = ~data[id].Done
           /\ data'[id].UpdatedAt > data[id].UpdatedAt)]_vars

\* C4, amended: toggle returns the task with done negated and updatedAt not
\* earlier than before, and a second toggle restores the original done
ToggleFlipsDone ==
  [][\A id \in IdSpace :
       ToggleStep(id)
       => (/\ last'.status = 200
           /\ last'.out.todos = <<data'[id]>>
           /\ data'[id].Done = ~data[id].Done
           /\ data'[id].UpdatedAt >= data[id].UpdatedAt
           /\ memToggle(data', id, now').todo.Done = data[id].Done)]_vars

ToggleFlipsDoneWitness ==
  /\ last.status = 200
  /\ last.method = "POST"
  /\ last.out.kind = "todo"
  /\ last.out.todos[1].Done = FALSE
  /\ last.out.todos[1].UpdatedAt > last.out.todos[1].CreatedAt

\* C5: toggle and delete of an id that is not in the store answer 404 and
\* leave the store as it was
MissingIdNotFound ==
  [][\A id \in IdSpace :
       (/\ Handled
        /\ id \notin DOMAIN data
        /\ \/ last'.method = "POST" /\ last'.path = <<"todos", id, "toggle">>
           \/ last'.method = "DELETE" /\ last'.path = <<"todos", id>>)
       => (/\ last'.status = 404
           /\ last'.out.kind = "error"
           /\ last'.out.error = "todo not found"
           /\ data' = data /\ deleted' = deleted)]_vars

MissingIdNotFoundWitness ==
  /\ last.status = 404
  /\ last.method = "DELETE"
  /\ data # <<>>
  /\ last.path[2] \in deleted

\* C6: an id that has been deleted is never in the store again
DeletedStaysGone == \A id \in deleted : id \notin DOMAIN data

\* l lists every task of m exactly once, in non-decreasing CreatedAt order
SortedListing(l, m) ==
  /\ Len(l) = Cardinality(DOMAIN m)
  /\ \A id \in DOMAIN m : \E i \in DOMAIN l : l[i] = m[id]
  /\ \A i, j \in DOMAIN l : i < j => l[i].CreatedAt <= l[j].CreatedAt

\* C7: in every reachable store, list (whatever order the map is visited in)
\* returns every task once in non-decreasing createdAt order, and so does the
\* handler's answer; a toggle or delete keeps every remaining task's place
\* relative to the others, because it keeps how their createdAt compare
ListSortedByCreatedAt ==
  /\ [](/\ \A o \in Orders(DOMAIN data) : SortedListing(memList(data, o), data)
        /\ (last.method = "GET" /\ last.status = 200) => SortedListing(last.out.todos, data))
  /\ [][(Handled /\ last'.method \in {"POST", "DELETE"} /\ Len(last'.path) >= 2)
        => \A a, b \in DOMAIN data' :
             /\ a \in DOMAIN data
             /\ data[a].CreatedAt < data[b].CreatedAt
                  <=> data'[a].CreatedAt < data'[b].CreatedAt]_vars

ListSortedByCreatedAtWitness ==
  /\ last.method = "GET"
  /\ Len(last.out.todos) = 2
  /\ last.out.todos[1].CreatedAt < last.out.todos[2].CreatedAt
  /\ last.out.todos[1].ID # issued[1]
  /\ deleted # {}
  /\ \E i \in 1..2 : last.out.todos[i].Done

\* C8: every stored task has CreatedAt <= UpdatedAt, and the task a create
\* returns and stores has CreatedAt = UpdatedAt
CreatedBeforeUpdated ==
  /\ \A id \in DOMAIN data : data[id].CreatedAt <= data[id].UpdatedAt
  /\ last.status = 201 =>
       LET t == last.out.todos[1] IN
       /\ t.CreatedAt = t.UpdatedAt
       /\ data[t.ID] = t

CreatedBeforeUpdatedWitness ==
  /\ last.status = 201
  /\ last.out.todos[1].CreatedAt > 0
  /\ \E id \in DOMAIN data : data[id].CreatedAt < data[id].UpdatedAt

\* C9: a call whose context was cancelled before it acquired the lock leaves
\* the store as it was
CancelledCallLeavesStore ==
  [][\A p \in Procs :
       (pc[p] = "cs" /\ ctx[p] = "early" /\ pc'[p] = "idle") => data' = data]_vars

\* C10: a 405 response's Allow header names only methods that the same path
\* does not answer with 405
AllowNamesAcceptedMethods ==
  last.status = 405 =>
    /\ last.allow # <<>>
    /\ \A i \in DOMAIN last.allow : Refusal(last.allow[i], last.path).status # 405

====
